---- MODULE Spec2Model ----
(***************************************************************************)
(* Model of voice_stream/audio/audio_webm.py: the EBML variable-length     *)
(* integer reader (read_ebml_size), the backward SimpleBlock locator       *)
(* (find_last_webm_simple_block) and the container splitter                *)
(* (split_webm_buffer).  Buffers are sequences of bytes (0..255); Python's *)
(* 0-based index i is element i+1 of the sequence.  An optional value      *)
(* (Python None or a value v) is the sequence << >> or << v >>.            *)
(***************************************************************************)
EXTENDS Integers, Sequences, FiniteSets, TLC

VARIABLES
    \* ---- one call of read_ebml_size made directly by a client
    rpc,            \* "idle" | "call" | "return"
    position,       \* argument position
    max_bytes,      \* argument max_bytes
    rres,           \* returned (value, num_bytes)
    \* ---- the running frame of find_last_webm_simple_block
    fpc,            \* "idle" | "enter" | "rfind" | "check" | "return"
    caller,         \* "direct" | "line26" | "line73"
    data,           \* argument data
    end,            \* argument end (optional)
    l,              \* local l
    pos,            \* local pos
    fres,           \* returned value
    \* ---- the running frame of split_webm_buffer
    pc,             \* position in split_webm_buffer
    audio, split_before, adjust_timestamps,
    last_start, size, usable_audio, extra_bytes,
    stream,         \* the packets the opened input container demuxes to
    next_packet,    \* how many of them the demux iterator has yielded
    packets_since_last_keyframe, byte_ptr, key_frame_start,
    dts_start, pts_start,
    loop_i,         \* index of the mux loop of lines 64-68
    muxed,          \* the packets handed to output_container.mux, as written
    raw,            \* output_buffer.getvalue()
    ret,            \* the returned bytes (optional)
    err             \* the exception that ended the call, or "none"

rvars == <<rpc, position, max_bytes, rres>>
fvars == <<fpc, caller, data, end, l, pos, fres>>
svars == <<pc, audio, split_before, adjust_timestamps, last_start, size,
           usable_audio, extra_bytes, stream, next_packet,
           packets_since_last_keyframe, byte_ptr, key_frame_start,
           dts_start, pts_start, loop_i, muxed, raw, ret, err>>
vars == <<rvars, fvars, svars>>

----------------------------------------------------------------------------
(* Bounds of the model *)

\* longest buffer handed to a direct call of find_last_webm_simple_block
MaxLen == 7
\* longest buffer handed to a direct call of read_ebml_size
MaxReadLen == 3
\* largest max_bytes handed to a direct call of read_ebml_size
MaxWidth == 3

(* Byte values the buffers are built from.  0xA3 is the marker (and, as a   *)
(* size field, the 1-byte value 35); 0x80 is the keyframe flag (and the     *)
(* 1-byte value 0); 0x00 is the non-keyframe flag (and a field of width 9); *)
(* 0x60 starts a 2-byte field and has the bit 0x20 set; 0x40 starts a       *)
(* 2-byte field; 0x84 is the 1-byte value 4; 0x85 the 1-byte value 5;       *)
(* 0x20 starts a 3-byte field; 0xFF is the 1-byte value 127.                *)
FindBytes == {163, 128, 0, 96}
SplitBytes == {163, 128, 132}
RawBytes == {163, 128}

\* longest input buffer, and longest muxer output, of SpecSplit
MaxAudioLen == 7
MaxRawLen == 6
\* most packets in a container, and largest split_before, of SpecScan
MaxPackets == 2
MaxSplit == 3
ReadBytes == {163, 128, 0, 96, 64, 133, 32, 255, 1}

None == << >>
Some(v) == << v >>
IsNone(o) == o = << >>
Val(o) == o[1]

Max2(a, b) == IF a >= b THEN a ELSE b
Min2(a, b) == IF a <= b THEN a ELSE b

RECURSIVE Pow2(_)
Pow2(n) == IF n <= 0 THEN 1 ELSE 2 * Pow2(n - 1)

\* all byte sequences of length n over the alphabet B
RECURSIVE SeqsOfLen(_, _)
SeqsOfLen(B, n) ==
    IF n = 0 THEN { << >> }
    ELSE { Append(s, b) : s \in SeqsOfLen(B, n - 1), b \in B }

SeqsUpTo(B, n) == UNION { SeqsOfLen(B, k) : k \in 0..n }

\* data[i] for a 0-based index i inside the buffer
At(d, i) == d[i + 1]

\* data[a:b] for 0 <= a, any b (Python clamps the slice to the buffer)
Slice(d, a, b) == SubSeq(d, a + 1, Min2(b, Len(d)))

\* the packets a container may hold
PacketSizes == {0, 1, 2}
DtsValues == {None, Some(1), Some(3)}
PtsValues == {None, Some(2)}
Packets ==
    [size : PacketSizes, is_keyframe : BOOLEAN, dts : DtsValues, pts : PtsValues]
Streams == SeqsUpTo(Packets, MaxPackets)
\* containers of SpecSplit: at most one packet, without timestamps
ShortStreams ==
    SeqsUpTo([size : {1}, is_keyframe : BOOLEAN, dts : {None}, pts : {None}], 1)
\* input and muxer outputs of SpecScan: a complete SimpleBlock, a SimpleBlock
\* that declares more bytes than there are, and no SimpleBlock
ScanAudio == { <<163, 132, 128, 0, 0, 128>> }
ScanRaw == { <<163, 132, 128, 0, 0, 128, 0>>, <<163, 163, 128, 0, 0, 128>>, << >> }

----------------------------------------------------------------------------
(* read_ebml_size *)

\* lines 133-137: 1 + the number of leading zero bits of first_byte
RECURSIVE CountNumBytes(_, _, _)
CountNumBytes(first_byte, bit, num_bytes) ==
    IF bit < 0 THEN num_bytes
    ELSE IF (first_byte \div Pow2(bit)) % 2 = 1 THEN num_bytes
    ELSE CountNumBytes(first_byte, bit - 1, num_bytes + 1)

\* byte & (0xFF >> k): the low 8-k bits of byte (0 when k >= 8)
MaskShift(byte, k) == IF k >= 8 THEN 0 ELSE byte % Pow2(8 - k)

\* line 156: size_value = byte & (0xFF >> (num_bytes + 1))
FirstByteValue(byte, num_bytes) == MaskShift(byte, num_bytes + 1)

\* lines 152-158: the loop over size_bytes, i the 0-based loop index
RECURSIVE SizeValue(_, _, _, _)
SizeValue(size_bytes, num_bytes, i, size_value) ==
    IF i >= Len(size_bytes) THEN size_value
    ELSE IF i = 0
         THEN SizeValue(size_bytes, num_bytes, 1,
                        FirstByteValue(At(size_bytes, 0), num_bytes))
         ELSE SizeValue(size_bytes, num_bytes, i + 1,
                        size_value * 256 + At(size_bytes, i))

\* read_ebml_size(data, position, max_bytes) for 0 <= position < len(data);
\* the returned pair (value, num_bytes), value optional
read_ebml_size(d, p, mb) ==
    LET first_byte == At(d, p)
        num_bytes  == CountNumBytes(first_byte, 7, 1)
    IN  IF num_bytes > mb
        THEN [value |-> None, num_bytes |-> num_bytes]
        ELSE IF num_bytes = 1
        THEN [value |-> Some(first_byte % 128), num_bytes |-> 1]
        ELSE IF Len(d) < p + num_bytes
        THEN [value |-> None, num_bytes |-> num_bytes]
        ELSE [value |-> Some(SizeValue(Slice(d, p, p + num_bytes), num_bytes, 0, 0)),
              num_bytes |-> num_bytes]

----------------------------------------------------------------------------
(* find_last_webm_simple_block *)

\* data.rfind(b"\xA3", 0, e): a negative e counts from the end of the buffer
RfindEnd(d, e) == IF e < 0 THEN Max2(e + Len(d), 0) ELSE Min2(e, Len(d))

rfind(d, e) ==
    LET hits == { i \in 0..(RfindEnd(d, e) - 1) : At(d, i) = 163 }
    IN  IF hits = {} THEN -1
        ELSE CHOOSE i \in hits : \A j \in hits : j <= i

\* line 94: l = end or len(data)
SearchLimit(d, e) == IF IsNone(e) \/ Val(e) = 0 THEN Len(d) ELSE Val(e)

\* lines 103-112 without the validation of the flag byte (lines 108-111)
CheckCandidateNoFlag(d, lim, p) ==
    IF p + 5 < lim
    THEN LET s == read_ebml_size(d, p + 1, 2)
         IN  IF ~IsNone(s.value)
             THEN LET t == read_ebml_size(d, p + 1 + s.num_bytes, 2)
                  IN  IF ~IsNone(t.value) /\ Val(t.value) < 5
                      THEN Some(<<p, Val(s.value) + 1 + s.num_bytes>>)
                      ELSE None
             ELSE None
    ELSE None

\* lines 103-112: the (pos, size) returned for the candidate at p, or None
\* when the candidate is rejected
CheckCandidate(d, lim, p) ==
    IF p + 5 < lim
    THEN LET s == read_ebml_size(d, p + 1, 2)
         IN  IF ~IsNone(s.value)
             THEN LET t == read_ebml_size(d, p + 1 + s.num_bytes, 2)
                  IN  IF ~IsNone(t.value) /\ Val(t.value) < 5
                      THEN LET flag_pos == p + 1 + s.num_bytes + t.num_bytes + 2
                           IN  IF flag_pos < lim
                                  /\ (At(d, flag_pos) = 128 \/ At(d, flag_pos) = 0)
                               THEN Some(<<p, Val(s.value) + 1 + s.num_bytes>>)
                               ELSE None
                      ELSE None
             ELSE None
    ELSE None

\* find_last_webm_simple_block returns -1 (None here) or Some of the pair
\* (pos, size)
NotFound == None

\* lines 94-95: l = end or len(data); pos = l
FindEnter ==
    /\ fpc = "enter"
    /\ l' = SearchLimit(data, end)
    /\ pos' = SearchLimit(data, end)
    /\ fpc' = "rfind"
    /\ UNCHANGED <<caller, data, end, fres, rvars, svars>>

\* lines 98-101: pos = data.rfind(b"\xA3", 0, pos); return -1 when it is -1
FindRfind ==
    /\ fpc = "rfind"
    /\ pos' = rfind(data, pos)
    /\ IF rfind(data, pos) = -1
       THEN fres' = NotFound /\ fpc' = "return"
       ELSE fres' = fres /\ fpc' = "check"
    /\ UNCHANGED <<caller, data, end, l, rvars, svars>>

\* lines 103-115: validate the candidate at pos; return it, or pos -= 1
FindCheck ==
    /\ fpc = "check"
    /\ IF IsNone(CheckCandidate(data, l, pos))
       THEN pos' = pos - 1 /\ fres' = fres /\ fpc' = "rfind"
       ELSE pos' = pos /\ fres' = CheckCandidate(data, l, pos) /\ fpc' = "return"
    /\ UNCHANGED <<caller, data, end, l, rvars, svars>>

----------------------------------------------------------------------------
(* split_webm_buffer *)

\* lines 45-50 resetting also at a keyframe whose offset equals split_before
ScanPacketInclusive(st, packet, sb) ==
    LET reset == packet.is_keyframe /\ st.byte_ptr <= sb
    IN  [packets_since_last_keyframe |->
             Append(IF reset THEN << >> ELSE st.packets_since_last_keyframe, packet),
         key_frame_start |-> IF reset THEN st.byte_ptr ELSE st.key_frame_start,
         byte_ptr |-> st.byte_ptr + packet.size]

\* lines 45-50 with the comparison inverted: resetting at the keyframes at or
\* after split_before
ScanPacketAfter(st, packet, sb) ==
    LET reset == packet.is_keyframe /\ st.byte_ptr >= sb
    IN  [packets_since_last_keyframe |->
             Append(IF reset THEN << >> ELSE st.packets_since_last_keyframe, packet),
         key_frame_start |-> IF reset THEN st.byte_ptr ELSE st.key_frame_start,
         byte_ptr |-> st.byte_ptr + packet.size]

\* lines 45-50, one iteration: st holds the three locals of the scanner
ScanPacket(st, packet, sb) ==
    LET reset == packet.is_keyframe /\ st.byte_ptr < sb
    IN  [packets_since_last_keyframe |->
             Append(IF reset THEN << >> ELSE st.packets_since_last_keyframe, packet),
         key_frame_start |-> IF reset THEN st.byte_ptr ELSE st.key_frame_start,
         byte_ptr |-> st.byte_ptr + packet.size]

\* the exceptions Python raises in split_webm_buffer
UnpackInt == "TypeError: cannot unpack non-iterable int object"
NoneArithmetic == "TypeError: unsupported operand type(s) for -"

\* lines 65-67: "ok" and the packet as handed to mux, or the TypeError of a
\* subtraction that meets None
RebasePacket(packet, adjust, ds, ps) ==
    IF adjust /\ ~IsNone(packet.dts)
    THEN IF IsNone(ds)
         THEN [outcome |-> NoneArithmetic, packet |-> packet]
         ELSE IF IsNone(packet.pts) \/ IsNone(ps)
         THEN [outcome |-> NoneArithmetic,
               packet |-> [packet EXCEPT !.dts = Some(Val(packet.dts) - Val(ds))]]
         ELSE [outcome |-> "ok",
               packet |-> [packet EXCEPT !.dts = Some(Val(packet.dts) - Val(ds)),
                                         !.pts = Some(Val(packet.pts) - Val(ps))]]
    ELSE [outcome |-> "ok", packet |-> packet]

\* lines 27-29: the end of the usable audio
UsableEnd(a, start, sz) == IF Len(a) = start + sz THEN start + sz ELSE start

\* line 77 without the cut at the end of the last block: raw + extra_bytes
StitchUntrimmed(r, p, sz, extra) == r \o extra

\* line 77: raw[: pos + size] + extra_bytes
StitchOutput(r, p, sz, extra) == Slice(r, 0, p + sz) \o extra

\* line 26: call find_last_webm_simple_block(audio)
SplitCallFindAudio ==
    /\ pc = "line26"
    /\ pc' = "find26"
    /\ fpc' = "enter" /\ caller' = "line26" /\ data' = audio /\ end' = None
    /\ UNCHANGED <<l, pos, fres, rvars>>
    /\ UNCHANGED <<audio, split_before, adjust_timestamps, last_start, size,
                   usable_audio, extra_bytes, stream, next_packet,
                   packets_since_last_keyframe, byte_ptr, key_frame_start,
                   dts_start, pts_start, loop_i, muxed, raw, ret, err>>

\* lines 26-31: unpack the result (a bare -1 does not unpack) and cut the input
SplitCutInput ==
    /\ pc = "find26" /\ fpc = "return"
    /\ fpc' = "idle"
    /\ IF IsNone(fres)
       THEN /\ pc' = "raised" /\ err' = UnpackInt
            /\ UNCHANGED <<last_start, size, usable_audio, extra_bytes>>
       ELSE /\ pc' = "line34" /\ err' = err
            /\ last_start' = UsableEnd(audio, Val(fres)[1], Val(fres)[2])
            /\ size' = Val(fres)[2]
            /\ usable_audio' = Slice(audio, 0, UsableEnd(audio, Val(fres)[1], Val(fres)[2]))
            /\ extra_bytes' = Slice(audio, UsableEnd(audio, Val(fres)[1], Val(fres)[2]),
                                    Len(audio))
    /\ UNCHANGED <<caller, data, end, l, pos, fres, rvars>>
    /\ UNCHANGED <<audio, split_before, adjust_timestamps, stream, next_packet,
                   packets_since_last_keyframe, byte_ptr, key_frame_start,
                   dts_start, pts_start, loop_i, muxed, raw, ret>>

\* lines 34-44: open the container over usable_audio; it has no audio stream,
\* or it has one that demuxes to one of the packet sequences of streams
SplitOpen(streams) ==
    /\ pc = "line34"
    /\ \E has_audio \in BOOLEAN :
         IF has_audio
         THEN /\ stream' \in streams
              /\ next_packet' = 0
              /\ packets_since_last_keyframe' = << >>
              /\ byte_ptr' = 0
              /\ key_frame_start' = -1
              /\ pc' = "demux" /\ err' = err
         ELSE /\ pc' = "raised" /\ err' = "ValueError"
              /\ UNCHANGED <<stream, next_packet, packets_since_last_keyframe,
                             byte_ptr, key_frame_start>>
    /\ UNCHANGED <<fvars, rvars>>
    /\ UNCHANGED <<audio, split_before, adjust_timestamps, last_start, size,
                   usable_audio, extra_bytes, dts_start, pts_start, loop_i,
                   muxed, raw, ret>>

\* lines 45-50: the demuxer yields the next packet
SplitScanPacket ==
    /\ pc = "demux" /\ next_packet < Len(stream)
    /\ LET st == ScanPacket([packets_since_last_keyframe |-> packets_since_last_keyframe,
                             key_frame_start |-> key_frame_start,
                             byte_ptr |-> byte_ptr],
                            stream[next_packet + 1], split_before)
       IN  /\ packets_since_last_keyframe' = st.packets_since_last_keyframe
           /\ key_frame_start' = st.key_frame_start
           /\ byte_ptr' = st.byte_ptr
    /\ next_packet' = next_packet + 1
    /\ UNCHANGED <<fvars, rvars>>
    /\ UNCHANGED <<pc, audio, split_before, adjust_timestamps, last_start, size,
                   usable_audio, extra_bytes, stream, dts_start, pts_start,
                   loop_i, muxed, raw, ret, err>>

\* lines 51-63: the demuxer is exhausted; open the output and read the first
\* buffered packet's timestamps (an empty list has no element 0)
SplitBeginMux ==
    /\ pc = "demux" /\ next_packet = Len(stream)
    /\ IF packets_since_last_keyframe = << >>
       THEN /\ pc' = "raised" /\ err' = "IndexError"
            /\ UNCHANGED <<dts_start, pts_start>>
       ELSE /\ pc' = "mux" /\ err' = err
            /\ dts_start' = packets_since_last_keyframe[1].dts
            /\ pts_start' = packets_since_last_keyframe[1].pts
    /\ loop_i' = 0 /\ muxed' = << >>
    /\ UNCHANGED <<fvars, rvars>>
    /\ UNCHANGED <<audio, split_before, adjust_timestamps, last_start, size,
                   usable_audio, extra_bytes, stream, next_packet,
                   packets_since_last_keyframe, byte_ptr, key_frame_start,
                   raw, ret>>

\* lines 64-68: rebase the next buffered packet in place and mux it
SplitMuxPacket ==
    /\ pc = "mux" /\ loop_i < Len(packets_since_last_keyframe)
    /\ LET r == RebasePacket(packets_since_last_keyframe[loop_i + 1],
                             adjust_timestamps, dts_start, pts_start)
       IN  /\ packets_since_last_keyframe' =
                 [packets_since_last_keyframe EXCEPT ![loop_i + 1] = r.packet]
           /\ IF r.outcome = "ok"
              THEN /\ muxed' = Append(muxed, r.packet)
                   /\ loop_i' = loop_i + 1
                   /\ pc' = pc /\ err' = err
              ELSE /\ pc' = "raised" /\ err' = r.outcome
                   /\ UNCHANGED <<muxed, loop_i>>
    /\ UNCHANGED <<fvars, rvars>>
    /\ UNCHANGED <<audio, split_before, adjust_timestamps, last_start, size,
                   usable_audio, extra_bytes, stream, next_packet, byte_ptr,
                   key_frame_start, dts_start, pts_start, raw, ret>>

\* lines 70-72: close the output container; the muxer has written one of the
\* byte strings of outputs
SplitClose(outputs) ==
    /\ pc = "mux" /\ loop_i = Len(packets_since_last_keyframe)
    /\ raw' \in outputs
    /\ pc' = "line73"
    /\ UNCHANGED <<fvars, rvars>>
    /\ UNCHANGED <<audio, split_before, adjust_timestamps, last_start, size,
                   usable_audio, extra_bytes, stream, next_packet,
                   packets_since_last_keyframe, byte_ptr, key_frame_start,
                   dts_start, pts_start, loop_i, muxed, ret, err>>

\* line 73: call find_last_webm_simple_block(raw)
SplitCallFindRaw ==
    /\ pc = "line73"
    /\ pc' = "find73"
    /\ fpc' = "enter" /\ caller' = "line73" /\ data' = raw /\ end' = None
    /\ UNCHANGED <<l, pos, fres, rvars>>
    /\ UNCHANGED <<audio, split_before, adjust_timestamps, last_start, size,
                   usable_audio, extra_bytes, stream, next_packet,
                   packets_since_last_keyframe, byte_ptr, key_frame_start,
                   dts_start, pts_start, loop_i, muxed, raw, ret, err>>

\* lines 73-78: unpack the result (the local pos of split_webm_buffer is
\* Val(fres)[1]), assert the block is complete, stitch
SplitFinish ==
    /\ pc = "find73" /\ fpc = "return"
    /\ fpc' = "idle"
    /\ IF IsNone(fres)
       THEN /\ pc' = "raised" /\ err' = UnpackInt
            /\ UNCHANGED <<size, ret>>
       ELSE /\ size' = Val(fres)[2]
            /\ IF Len(raw) >= Val(fres)[1] + Val(fres)[2]
               THEN /\ ret' = Some(StitchOutput(raw, Val(fres)[1], Val(fres)[2],
                                                extra_bytes))
                    /\ pc' = "return" /\ err' = err
               ELSE /\ pc' = "raised" /\ err' = "AssertionError"
                    /\ ret' = ret
    /\ UNCHANGED <<caller, data, end, l, pos, fres, rvars>>
    /\ UNCHANGED <<audio, split_before, adjust_timestamps, last_start,
                   usable_audio, extra_bytes, stream, next_packet,
                   packets_since_last_keyframe, byte_ptr, key_frame_start,
                   dts_start, pts_start, loop_i, muxed, raw>>

----------------------------------------------------------------------------
(* a direct call of read_ebml_size(data, position, max_bytes) *)

ReadCall ==
    /\ rpc = "call"
    /\ rres' = read_ebml_size(data, position, max_bytes)
    /\ rpc' = "return"
    /\ UNCHANGED <<position, max_bytes, fvars, svars>>

----------------------------------------------------------------------------
(* Initial states *)

ReadIdle ==
    /\ rpc = "idle" /\ position = 0 /\ max_bytes = 2
    /\ rres = [value |-> None, num_bytes |-> 0]

SplitIdle ==
    /\ pc = "idle" /\ audio = << >> /\ split_before = 0
    /\ adjust_timestamps = FALSE
    /\ last_start = 0 /\ size = 0 /\ usable_audio = << >> /\ extra_bytes = << >>
    /\ stream = << >> /\ next_packet = 0
    /\ packets_since_last_keyframe = << >> /\ byte_ptr = 0 /\ key_frame_start = -1
    /\ dts_start = None /\ pts_start = None /\ loop_i = 0
    /\ muxed = << >> /\ raw = << >> /\ ret = None /\ err = "none"

\* a client calls read_ebml_size(data, position, max_bytes)
InitRead ==
    /\ data \in SeqsUpTo(ReadBytes, MaxReadLen) \ { << >> }
    /\ position \in 0..(Len(data) - 1)
    /\ max_bytes \in 1..MaxWidth
    /\ rpc = "call" /\ rres = [value |-> None, num_bytes |-> 0]
    /\ fpc = "idle" /\ caller = "direct" /\ end = None /\ l = 0 /\ pos = 0
    /\ fres = NotFound
    /\ SplitIdle

\* a client calls find_last_webm_simple_block(data) or (data, end)
InitFind ==
    /\ data \in SeqsUpTo(FindBytes, MaxLen)
    /\ end \in { None } \cup { Some(e) : e \in 0..Len(data) }
    /\ fpc = "enter" /\ caller = "direct" /\ l = 0 /\ pos = 0 /\ fres = NotFound
    /\ ReadIdle
    /\ SplitIdle

FindIdle ==
    /\ fpc = "idle" /\ caller = "direct" /\ data = << >> /\ end = None
    /\ l = 0 /\ pos = 0 /\ fres = NotFound

SplitEntry ==
    /\ pc = "line26"
    /\ last_start = 0 /\ size = 0 /\ usable_audio = << >> /\ extra_bytes = << >>
    /\ stream = << >> /\ next_packet = 0
    /\ packets_since_last_keyframe = << >> /\ byte_ptr = 0 /\ key_frame_start = -1
    /\ dts_start = None /\ pts_start = None /\ loop_i = 0
    /\ muxed = << >> /\ raw = << >> /\ ret = None /\ err = "none"

\* a client calls split_webm_buffer(audio, split_before) on any buffer
InitSplit ==
    /\ audio \in SeqsUpTo(SplitBytes, MaxAudioLen)
    /\ split_before = 1
    /\ adjust_timestamps = FALSE
    /\ SplitEntry /\ FindIdle /\ ReadIdle

\* a client calls split_webm_buffer on a buffer that ends in a SimpleBlock
InitScan ==
    /\ audio \in ScanAudio
    /\ split_before \in 0..MaxSplit
    /\ adjust_timestamps \in BOOLEAN
    /\ SplitEntry /\ FindIdle /\ ReadIdle

NextRead == ReadCall
NextFind == FindEnter \/ FindRfind \/ FindCheck

SpecRead == InitRead /\ [][NextRead]_vars
SpecFind == InitFind /\ [][NextFind]_vars
\* the interpreter keeps executing the loop of lines 97-115 until it returns
NextSplit ==
    \/ SplitCallFindAudio \/ SplitCutInput \/ SplitOpen(ShortStreams)
    \/ SplitScanPacket \/ SplitBeginMux \/ SplitMuxPacket
    \/ SplitClose(SeqsUpTo(RawBytes, MaxRawLen))
    \/ SplitCallFindRaw \/ SplitFinish
    \/ FindEnter \/ FindRfind \/ FindCheck
NextScan ==
    \/ SplitCallFindAudio \/ SplitCutInput \/ SplitOpen(Streams)
    \/ SplitScanPacket \/ SplitBeginMux \/ SplitMuxPacket
    \/ SplitClose(ScanRaw)
    \/ SplitCallFindRaw \/ SplitFinish
    \/ FindEnter \/ FindRfind \/ FindCheck
SpecSplit == InitSplit /\ [][NextSplit]_vars
SpecScan == InitScan /\ [][NextScan]_vars
FairSpecFind == InitFind /\ [][NextFind]_vars /\ WF_vars(NextFind)

----------------------------------------------------------------------------
(* Properties of read_ebml_size *)

\* the big-endian integer of the bytes bs after the first one, appended to acc
RECURSIVE BigEndian(_, _, _)
BigEndian(bs, i, acc) ==
    IF i > Len(bs) THEN acc ELSE BigEndian(bs, i + 1, acc * 256 + bs[i])

\* the value of a first byte with exactly its num_bytes marker bits cleared
FirstByteValueExact(byte, num_bytes) == MaskShift(byte, num_bytes)

\* the field at position has a width within max_bytes and lies in the buffer
ReadInScope ==
    LET n == CountNumBytes(At(data, position), 7, 1)
    IN  n <= max_bytes /\ position + n <= Len(data)

\* C5: a direct call of read_ebml_size on a field whose width numBytes is
\* within max_bytes and inside the buffer returns (value, numBytes), value
\* being the big-endian integer of the numBytes bytes with exactly the
\* numBytes leading marker bits of the first byte cleared.
C5_ExactMasking ==
    (rpc = "return" /\ ReadInScope) =>
        LET n  == CountNumBytes(At(data, position), 7, 1)
            bs == Slice(data, position, position + n)
        IN  rres = [value |-> Some(BigEndian(bs, 2, FirstByteValueExact(bs[1], n))),
                    num_bytes |-> n]

----------------------------------------------------------------------------
(* Properties of find_last_webm_simple_block *)

DirectReturn == fpc = "return" /\ caller = "direct"
IsFound == ~IsNone(fres)
FoundPos == Val(fres)[1]
FoundSize == Val(fres)[2]

\* the index of the flag byte of the element at p, whose size field and track
\* field both decode
FlagPos(d, p) ==
    LET s == read_ebml_size(d, p + 1, 2)
        t == read_ebml_size(d, p + 1 + s.num_bytes, 2)
    IN  p + 1 + s.num_bytes + t.num_bytes + 2

\* the structural validation of the element at p within the whole buffer
Validates(d, p) ==
    /\ p \in 0..(Len(d) - 1)
    /\ At(d, p) = 163
    /\ p + 1 < Len(d)
    /\ ~IsNone(read_ebml_size(d, p + 1, 2).value)
    /\ p + 1 + read_ebml_size(d, p + 1, 2).num_bytes < Len(d)
    /\ LET t == read_ebml_size(d, p + 1 + read_ebml_size(d, p + 1, 2).num_bytes, 2)
       IN  ~IsNone(t.value) /\ Val(t.value) < 5
    /\ FlagPos(d, p) < Len(d)
    /\ At(d, FlagPos(d, p)) \in {128, 0}

ValidPositions(d) == { p \in 0..(Len(d) - 1) : Validates(d, p) }

\* C1: called with the default search end, the locator returns the greatest
\* position that passes structural validation, and returns NotFound only when
\* no position of the buffer passes it.
C1_ReturnsLastValid ==
    (DirectReturn /\ IsNone(end)) =>
        IF ValidPositions(data) = {}
        THEN ~IsFound
        ELSE IsFound /\ \A p \in ValidPositions(data) : p <= FoundPos

\* C2: the backward scan terminates on every finite buffer.
C2_ScanTerminates == <>(fpc = "return")

\* C7 as stated: every found element lies wholly inside the buffer.
C7_ElementInsideBuffer ==
    (DirectReturn /\ IsFound) => FoundPos + FoundSize <= Len(data)

\* C7 amended: every found element has its marker, size field, track field and
\* flag byte inside the buffer, and its total size is the decoded size plus
\* the marker byte plus the width of the size field.
C7_HeaderInsideBuffer ==
    (DirectReturn /\ IsFound) =>
        /\ FoundPos >= 0
        /\ At(data, FoundPos) = 163
        /\ FlagPos(data, FoundPos) < Len(data)
        /\ FoundSize = Val(read_ebml_size(data, FoundPos + 1, 2).value) + 1
                       + read_ebml_size(data, FoundPos + 1, 2).num_bytes

\* a found element that extends beyond the end of the buffer
C7_Witness == DirectReturn /\ IsFound /\ FoundPos + FoundSize > Len(data)

\* C10: with an explicit search end e, 0 <= e <= len, any returned position and
\* the flag byte validated for it lie below e.
C10_SearchesBelowEnd ==
    (DirectReturn /\ ~IsNone(end) /\ IsFound) =>
        FoundPos < Val(end) /\ FlagPos(data, FoundPos) < Val(end)

----------------------------------------------------------------------------
(* Properties of split_webm_buffer *)

\* the scanner has consumed the whole container
ScanDone == pc = "demux" /\ next_packet = Len(stream)
\* the call has gone on to remux, or has returned
AfterScan == pc \in {"mux", "line73", "find73", "return"}

\* the running byte offset of packet k: the sizes of all earlier packets
RECURSIVE Offset(_, _)
Offset(st, k) == IF k <= 1 THEN 0 ELSE Offset(st, k - 1) + st[k - 1].size

\* the keyframes of the container at a running byte offset < sb
KeyframesBefore(st, sb) ==
    { k \in 1..Len(st) : st[k].is_keyframe /\ Offset(st, k) < sb }

LastOf(S) == CHOOSE k \in S : \A j \in S : j <= k

\* C3: when no keyframe was seen at an offset < split_before the call fails
\* and never goes on to remux with the start offset -1.
C3_NoKeyframeFails == AfterScan => key_frame_start # -1

\* C4: when some keyframe has an offset < split_before, the scanner ends with
\* the largest such offset as start offset and with exactly the packets from
\* the last such keyframe through the end of the container.
C4_SelectsFromLastKeyframe ==
    (ScanDone /\ KeyframesBefore(stream, split_before) # {}) =>
        LET k == LastOf(KeyframesBefore(stream, split_before))
        IN  /\ key_frame_start = Offset(stream, k)
            /\ \A j \in KeyframesBefore(stream, split_before) :
                   Offset(stream, j) <= key_frame_start
            /\ packets_since_last_keyframe = SubSeq(stream, k, Len(stream))

\* a scan that selected a keyframe and kept, behind it, a keyframe at an
\* offset >= split_before without resetting
C4_Witness ==
    /\ ScanDone /\ KeyframesBefore(stream, split_before) # {}
    /\ \E j \in 1..Len(stream) :
          /\ stream[j].is_keyframe
          /\ Offset(stream, j) >= split_before
          /\ j > LastOf(KeyframesBefore(stream, split_before))
    /\ Len(packets_since_last_keyframe) = 2

\* the scanner of lines 42-50 run over the first n packets of st
RECURSIVE ScanAll(_, _, _)
ScanAll(st, n, sb) ==
    IF n = 0
    THEN [packets_since_last_keyframe |-> << >>, key_frame_start |-> -1, byte_ptr |-> 0]
    ELSE ScanPacket(ScanAll(st, n - 1, sb), st[n], sb)

\* C8: for the same container the selected start offset does not decrease
\* when split_before grows (-1 standing for no keyframe selected).
C8_Monotone ==
    ScanDone =>
        \A sb \in 0..(MaxSplit + 1) :
            /\ sb < split_before =>
                 ScanAll(stream, Len(stream), sb).key_frame_start <= key_frame_start
            /\ sb > split_before =>
                 ScanAll(stream, Len(stream), sb).key_frame_start >= key_frame_start

\* a smaller split offset selects an earlier keyframe of the same container
C8_Witness ==
    /\ ScanDone
    /\ \E sb \in 0..(MaxSplit + 1) :
          /\ sb < split_before
          /\ ScanAll(stream, Len(stream), sb).key_frame_start >= 0
          /\ ScanAll(stream, Len(stream), sb).key_frame_start < key_frame_start

\* the selected packets as the demuxer yielded them
Selected == SubSeq(stream, Len(stream) - Len(packets_since_last_keyframe) + 1,
                   Len(stream))

\* a timestamp rebased on the first selected packet's, when present
Rebased(t, first) == IF IsNone(t) THEN None ELSE Some(Val(t) - Val(first))

\* C6: with adjust_timestamps every muxed packet has the first selected
\* packet's dts and pts subtracted, each field only when present, and an
\* absent field does not make the call fail; without it packets are muxed
\* unchanged.  Stated for selections whose first packet has both timestamps.
C6_RebasesEachField ==
    ((AfterScan \/ pc = "raised") /\ Selected # << >>
       /\ ~IsNone(Selected[1].dts) /\ ~IsNone(Selected[1].pts)) =>
        /\ err # NoneArithmetic
        /\ \A i \in 1..Len(muxed) :
              muxed[i] =
                IF adjust_timestamps
                THEN [Selected[i] EXCEPT
                        !.dts = Rebased(Selected[i].dts, Selected[1].dts),
                        !.pts = Rebased(Selected[i].pts, Selected[1].pts)]
                ELSE Selected[i]

\* C9: the unpacking of line 26 takes t = the located block's start, or
\* len(audio) when the block ends exactly there; whenever the call returns,
\* its output is raw[0 : p + s] followed by audio[t :], of length
\* (p + s) + (len(audio) - t), usable_audio and the raw tail partition the
\* input, and the call fails instead when p + s > len(raw).
C9_StitchStep ==
    /\ (pc = "find26" /\ pc' = "line34") =>
          /\ last_start' = IF FoundPos + FoundSize = Len(audio)
                           THEN Len(audio) ELSE FoundPos
          /\ usable_audio' \o extra_bytes' = audio
          /\ Len(usable_audio') = last_start'
    /\ (pc = "find73" /\ fpc = "return" /\ IsFound
          /\ FoundPos + FoundSize > Len(raw)) => pc' = "raised"
    /\ (pc = "find73" /\ pc' = "return") =>
          /\ FoundPos + FoundSize <= Len(raw)
          /\ ret' = Some(SubSeq(raw, 1, FoundPos + FoundSize)
                         \o SubSeq(audio, last_start + 1, Len(audio)))
          /\ Len(Val(ret')) = (FoundPos + FoundSize) + (Len(audio) - last_start)
====
